---- MODULE Spec2Model ----
(***************************************************************************)
(* The appservice worker of synapse/app/appservice.py: the replication     *)
(* loop AppserviceServer.replicate, the replica store it drives, the       *)
(* primary it long-polls and the application-service handler it notifies.  *)
(***************************************************************************)
EXTENDS Integers, FiniteSets, Sequences, TLC

\* ------------------------------------------------------------------ bounds
\* Highest stream position the primary ever produces.
MaxPos == 2
\* Highest position a stream of the store holds when the worker starts.
MaxInit == 1
\* Most times one response is handed to process_replication.
MaxDeliveries == 3

\* --------------------------------------------------------------- constants
\* args["timeout"] = 30000
LongPollTimeout == 30000
\* yield sleep(30)
BackoffDelay == 30

\* The replicated streams of the store; "events" is the one the loop reads.
Streams == {"events", "directory"}

RequestFailures == {"transport", "status", "malformed"}

VARIABLES
    pc,            \* where the loop of replicate() is
    pos,           \* store: stream name -> position
    rows,          \* store: stream name -> the rows written locally
    primaryUp,     \* whether the primary can be reached at all
    args,          \* the query of the request sent last
    result,        \* the response of this iteration, if one was received
    elapsed,       \* time units slept since the last failure
    pending,       \* calls of notify_interested_services that have not ended
    dispatchFailed,\* whether a call of notify_interested_services has failed
    notified,      \* history: the arguments of notify_interested_services, in order
    iterNotifies,  \* history: invocations of the dispatcher in this iteration
    outcome,       \* history: how the last finished iteration ended
    prevArgs,      \* history: the query of the request before the last one
    initPos,       \* history: the store's positions at startup
    maxSupplied,   \* history: stream name -> highest position a response carried
    deliveries,    \* history: times one response was handed to the store
    worker,        \* start(): how far the worker's startup has come
    servlet        \* RemoveHierarchyMemberRestServlet.on_DELETE: one request

vars == <<pc, pos, rows, primaryUp, args, result, elapsed, pending,
          dispatchFailed, notified, iterNotifies, outcome, prevArgs, initPos,
          maxSupplied, deliveries, worker, servlet>>

loopVars == <<pc, pos, rows, args, result, elapsed>>

Max(a, b) == IF a >= b THEN a ELSE b

\* The worker once start() has set it up and the reactor runs replicate().
WorkerRunning ==
    [phase |-> "running", loaded_notify |-> FALSE, notify_appservices |-> TRUE,
     server |-> TRUE, datastore |-> TRUE, listening |-> TRUE,
     scheduled |-> TRUE, reactor |-> TRUE, exit_code |-> 0]

\* No request to the servlet.
ServletIdle == [phase |-> "idle"]

NoBody == [s \in {} |-> 0]

NoResult == [received |-> FALSE, body |-> NoBody]

NoArgs == [k \in {} |-> 0]

\* ------------------------------------------------------------ the store

\* store.stream_positions(): one entry per stream of the composed store.
stream_positions == [s \in Streams |-> pos[s]]

\* A cursor advanced by the size of the batch instead of to its position.
advance_by_delta(current, new_id) == current + new_id

\* The cursor's advance: the position never moves back.
advance(current, new_id) == Max(current, new_id)

\* The elements of a set of numbers, in ascending order.
Ordered(S) ==
    [i \in 1 .. Cardinality(S) |->
        CHOOSE x \in S : Cardinality({y \in S : y < x}) = i - 1]

\* Every row of the batch written, also those the position already covers.
ApplyStreamAppendAll(p, r, s, body) ==
    <<[p EXCEPT ![s] = advance(p[s], body[s].position)],
      [r EXCEPT ![s] = r[s] \o Ordered(body[s].rows)]>>

\* One stream of a response applied: its rows written, its cursor advanced,
\* both or neither. Rows the position already covers are not written again.
ApplyStream(p, r, s, body) ==
    <<[p EXCEPT ![s] = advance(p[s], body[s].position)],
      [r EXCEPT ![s] = r[s] \o Ordered({x \in body[s].rows : x > p[s]})]>>

\* The streams in `done` of a response applied, every other stream untouched.
ApplyStreams(done, body) ==
    <<[s \in Streams |->
         IF s \in done THEN ApplyStream(pos, rows, s, body)[1][s] ELSE pos[s]],
      [s \in Streams |->
         IF s \in done THEN ApplyStream(pos, rows, s, body)[2][s] ELSE rows[s]]>>

\* ------------------------------------------------------------ the primary

\* The responses the primary may give to a request: a stream is present when
\* the primary has rows after the cursor sent, with its new position (after
\* the cursor) and the rows between the two; a stream without news is absent.
\* What the primary holds is not seen by the worker: any stream may have news.
Responses(query) ==
    UNION {
      { [s \in S |-> [position |-> f[s], rows |-> (query[s] + 1) .. f[s]]] :
          f \in { g \in [S -> 1 .. MaxPos] : \A s \in S : g[s] > query[s] } } :
      S \in SUBSET Streams }

\* ------------------------------------------------------------ the loop

Init ==
    /\ pc = "read"
    /\ initPos \in [Streams -> 0 .. MaxInit]
    /\ pos = initPos
    /\ rows = [s \in Streams |-> Ordered(1 .. initPos[s])]
    /\ primaryUp \in BOOLEAN
    /\ args = NoArgs
    /\ prevArgs = NoArgs
    /\ result = NoResult
    /\ elapsed = 0
    /\ pending = 0
    /\ dispatchFailed = FALSE
    /\ notified = <<>>
    /\ iterNotifies = 0
    /\ outcome = "none"
    /\ maxSupplied = [s \in Streams |-> 0]
    /\ deliveries = 0
    /\ worker = WorkerRunning
    /\ servlet = ServletIdle

\* The positions read once, before the loop, instead of in every iteration.
RequestArgsReadOnce ==
    [k \in Streams \cup {"timeout"} |->
        IF k = "timeout" THEN LongPollTimeout ELSE initPos[k]]

\* The long-poll wait left out of a retry after a failure.
RequestArgsRetryAtOnce ==
    [k \in Streams \cup {"timeout"} |->
        IF k = "timeout"
        THEN (IF outcome \in {"request_failed", "apply_failed"}
              THEN 0 ELSE LongPollTimeout)
        ELSE stream_positions[k]]

\* args = store.stream_positions(); args["timeout"] = 30000
RequestArgs ==
    [k \in Streams \cup {"timeout"} |->
        IF k = "timeout" THEN LongPollTimeout ELSE stream_positions[k]]

\* The top of the while loop: the positions are read and the request is sent.
ReadAndSend ==
    /\ pc = "read"
    /\ args' = RequestArgs
    /\ prevArgs' = args
    /\ result' = NoResult
    /\ iterNotifies' = 0
    /\ pc' = "await"
    /\ UNCHANGED <<pos, rows, primaryUp, elapsed, pending, dispatchFailed,
                   notified, outcome, initPos, deliveries, worker, servlet, maxSupplied>>

\* process_replication called without waiting for it: the loop goes round
\* while the response is still to be applied.
ReceiveResponseNoWait ==
    /\ pc = "await"
    /\ primaryUp
    /\ \E body \in Responses(args) :
         /\ result' = [received |-> TRUE, body |-> body]
         /\ maxSupplied' = [s \in Streams |->
               IF s \in DOMAIN body
               THEN Max(maxSupplied[s], body[s].position)
               ELSE maxSupplied[s]]
    /\ pc' = "read"
    /\ UNCHANGED <<pos, rows, primaryUp, args, elapsed, pending,
                   dispatchFailed, notified, iterNotifies, outcome, prevArgs,
                   initPos, deliveries, worker, servlet>>

\* get_json returns the primary's response; process_replication is called.
ReceiveResponse ==
    /\ pc = "await"
    /\ primaryUp
    /\ \E body \in Responses(args) :
         /\ result' = [received |-> TRUE, body |-> body]
         /\ maxSupplied' = [s \in Streams |->
               IF s \in DOMAIN body
               THEN Max(maxSupplied[s], body[s].position)
               ELSE maxSupplied[s]]
    /\ pc' = "apply"
    /\ UNCHANGED <<pos, rows, primaryUp, args, elapsed, pending,
                   dispatchFailed, notified, iterNotifies, outcome, prevArgs,
                   initPos, deliveries, worker, servlet>>

\* The failure logged and the loop gone round at once, with no sleep.
OnFailureNoSleep ==
    /\ pc' = "read"
    /\ elapsed' = 0

\* The failure not caught: the exception ends replicate().
OnFailureFatal ==
    /\ pc' = "stopped"
    /\ elapsed' = 0

\* except: logger.exception(...); yield sleep(30)
OnFailure ==
    /\ pc' = "backoff"
    /\ elapsed' = 0

\* get_json raises: no connection, a non-success status, an unparsable body.
RequestFail ==
    /\ pc = "await"
    /\ \E kind \in RequestFailures : outcome' = "request_failed"
    /\ OnFailure
    /\ UNCHANGED <<pos, rows, primaryUp, args, result, pending,
                   dispatchFailed, notified, iterNotifies, prevArgs, initPos, deliveries, worker, servlet,
                   maxSupplied>>

\* process_replication applies every stream of the response.
ApplyOk ==
    /\ pc = "apply"
    /\ pos' = ApplyStreams(DOMAIN result.body, result.body)[1]
    /\ rows' = ApplyStreams(DOMAIN result.body, result.body)[2]
    /\ pc' = "notify"
    /\ UNCHANGED <<primaryUp, args, result, elapsed, pending,
                   dispatchFailed, notified, iterNotifies, outcome, prevArgs,
                   initPos, deliveries, worker, servlet, maxSupplied>>

\* process_replication raises on one stream of the response: the streams
\* handled before it stay applied, the failing one and the rest are not.
ApplyFail ==
    /\ pc = "apply"
    /\ \E f \in DOMAIN result.body :
         \E done \in SUBSET (DOMAIN result.body \ {f}) :
            /\ pos' = ApplyStreams(done, result.body)[1]
            /\ rows' = ApplyStreams(done, result.body)[2]
    /\ outcome' = "apply_failed"
    /\ OnFailure
    /\ UNCHANGED <<primaryUp, args, result, pending, dispatchFailed,
                   notified, iterNotifies, prevArgs, initPos, deliveries, worker, servlet, maxSupplied>>

\* The number of rows of the batch taken for its position.
max_stream_id_row_count(stream) == Cardinality(stream.rows)

\* max_stream_id = stream["position"]
max_stream_id(stream) == stream.position

\* The handler called in every iteration, with the store's events position.
NotifyAlways ==
    /\ pc = "notify"
    /\ notified' = Append(notified, pos["events"])
    /\ iterNotifies' = iterNotifies + 1
    /\ pending' = pending + 1
    /\ outcome' = "ok"
    /\ pc' = "read"
    /\ UNCHANGED <<pos, rows, primaryUp, args, result, elapsed, dispatchFailed,
                   prevArgs, initPos, deliveries, worker, servlet, maxSupplied>>

\* The sleep after every iteration, not only in the except branch.
NotifyThenSleep ==
    /\ pc = "notify"
    /\ IF "events" \in DOMAIN result.body
       THEN /\ notified' = Append(notified, result.body["events"].position)
            /\ iterNotifies' = iterNotifies + 1
            /\ pending' = pending + 1
       ELSE UNCHANGED <<notified, iterNotifies, pending>>
    /\ outcome' = "ok"
    /\ pc' = "backoff"
    /\ elapsed' = 0
    /\ UNCHANGED <<pos, rows, primaryUp, args, result, dispatchFailed,
                   prevArgs, initPos, deliveries, worker, servlet, maxSupplied>>

\* The handler waited for (yield replicate(result)): the loop goes on when the
\* call returns, and a call that raises is a failure of the iteration.
NotifyAwaited ==
    /\ pc = "notify"
    /\ IF "events" \in DOMAIN result.body
       THEN /\ notified' = Append(notified, result.body["events"].position)
            /\ iterNotifies' = iterNotifies + 1
            /\ \E how \in {"pending", "raised", "returned"} :
                 /\ pending' = IF how = "pending" THEN pending + 1
                                                  ELSE pending
                 /\ dispatchFailed' = (dispatchFailed \/ how = "raised")
                 /\ pc' = CASE how = "pending" -> "dispatching"
                             [] how = "raised" -> "backoff"
                             [] OTHER -> "read"
                 /\ outcome' = IF how = "raised" THEN "apply_failed" ELSE "ok"
                 /\ elapsed' = IF how = "raised" THEN 0 ELSE elapsed
       ELSE /\ UNCHANGED <<notified, iterNotifies, pending, dispatchFailed,
                           elapsed>>
            /\ pc' = "read"
            /\ outcome' = "ok"
    /\ UNCHANGED <<pos, rows, primaryUp, args, result, prevArgs, initPos, deliveries, worker, servlet,
                   maxSupplied>>

\* replicate(result): stream = results.get("events"); if stream: the handler
\* is called with the stream's position. The call is not waited for, and an
\* exception of it ends in the inner function's own deferred.
Notify ==
    /\ pc = "notify"
    /\ IF "events" \in DOMAIN result.body
       THEN LET p == max_stream_id(result.body["events"]) IN
            /\ notified' = Append(notified, p)
            /\ iterNotifies' = iterNotifies + 1
            /\ \E how \in {"pending", "raised", "returned"} :
                 /\ pending' = IF how = "pending" THEN pending + 1
                                                  ELSE pending
                 /\ dispatchFailed' = (dispatchFailed \/ how = "raised")
       ELSE UNCHANGED <<notified, iterNotifies, pending, dispatchFailed>>
    /\ outcome' = "ok"
    /\ pc' = "read"
    /\ UNCHANGED <<pos, rows, primaryUp, args, result, elapsed, prevArgs,
                   initPos, deliveries, worker, servlet, maxSupplied>>

\* A call of notify_interested_services still in flight returns.
DispatchDone ==
    /\ pending > 0
    /\ pending' = pending - 1
    /\ UNCHANGED <<pc, pos, rows, primaryUp, args, result, elapsed,
                   dispatchFailed, notified, iterNotifies, outcome, prevArgs,
                   initPos, deliveries, worker, servlet, maxSupplied>>

\* A call of notify_interested_services still in flight fails.
DispatchFail ==
    /\ pending > 0
    /\ pending' = pending - 1
    /\ dispatchFailed' = TRUE
    /\ UNCHANGED <<pc, pos, rows, primaryUp, args, result, elapsed,
                   notified, iterNotifies, outcome, prevArgs, initPos, deliveries, worker, servlet,
                   maxSupplied>>

\* One time unit of sleep(30) passes.
Tick ==
    /\ pc = "backoff"
    /\ elapsed < BackoffDelay
    /\ elapsed' = elapsed + 1
    /\ UNCHANGED <<pc, pos, rows, primaryUp, args, result, pending,
                   dispatchFailed, notified, iterNotifies, outcome, prevArgs,
                   initPos, deliveries, worker, servlet, maxSupplied>>

\* sleep(30) returns and the while loop goes round.
Wake ==
    /\ pc = "backoff"
    /\ elapsed = BackoffDelay
    /\ pc' = "read"
    /\ UNCHANGED <<pos, rows, primaryUp, args, result, elapsed, pending,
                   dispatchFailed, notified, iterNotifies, outcome, prevArgs,
                   initPos, deliveries, worker, servlet, maxSupplied>>

Next ==
    \/ ReadAndSend
    \/ ReceiveResponse
    \/ RequestFail
    \/ ApplyOk
    \/ ApplyFail
    \/ Notify
    \/ DispatchDone
    \/ DispatchFail
    \/ Tick
    \/ Wake

Spec == Init /\ [][Next]_vars

\* The reactor runs every step of the loop that can run, the primary answers
\* or fails every request, and the backoff timer runs. New rows on the
\* primary and the end of a dispatch are not promised.
FairSpec ==
    /\ Spec
    /\ WF_vars(ReadAndSend)
    /\ WF_vars(ReceiveResponse \/ RequestFail)
    /\ WF_vars(ApplyOk \/ ApplyFail)
    /\ WF_vars(Notify)
    /\ WF_vars(Tick)
    /\ WF_vars(Wake)

\* ------------------------------------------------------------ the claims

Failed == {"request_failed", "apply_failed"}

\* The highest events position a batch applied by the loop has written to the
\* store (0: none yet).
AppliedEvents ==
    IF pos["events"] > initPos["events"] THEN pos["events"] ELSE 0

NotifiedUpTo(P) == \E i \in 1 .. Len(notified) : notified[i] >= P

\* C1: every events position P that a batch applied to the store included is
\* eventually followed by an invocation of notify_interested_services with an
\* argument >= P, whatever fails in between.
C1_AtLeastOnceDispatch ==
    \A P \in 1 .. MaxPos : [](AppliedEvents >= P => <>NotifiedUpTo(P))

\* C2: a request that follows a failed iteration carries, for every stream,
\* the position the failed request carried.
C2_Resumability ==
    (pc = "await" /\ outcome \in Failed) =>
        \A s \in Streams : args[s] = prevArgs[s]

\* C3: the arguments of notify_interested_services, in the order of the
\* invocations, never decrease.
C3_NotifyNonDecreasing ==
    \A i, j \in 1 .. Len(notified) : i < j => notified[i] <= notified[j]

\* Two invocations with different positions, the earlier ones still in flight.
C3_Witness ==
    /\ Len(notified) >= 2
    /\ notified[1] < notified[2]
    /\ pending >= 2

\* C4 as stated: the position of every stream never decreases and never
\* exceeds the highest position a response has carried for that stream.
C4_MonotonicPositions ==
    /\ [][\A s \in Streams : pos'[s] >= pos[s]]_vars
    /\ [](\A s \in Streams : pos[s] <= maxSupplied[s])

\* C4, amended: the position of every stream never decreases and never exceeds
\* the larger of its value at startup and the highest position a response has
\* carried for that stream.
C4_MonotonicFromStartup ==
    /\ [][\A s \in Streams : pos'[s] >= pos[s]]_vars
    /\ [](\A s \in Streams : pos[s] <= Max(initPos[s], maxSupplied[s]))

\* A stream advanced by a batch to the highest position supplied, beside a
\* stream still at its startup position.
C4_Witness ==
    /\ initPos["events"] > 0
    /\ pos["events"] > initPos["events"]
    /\ pos["events"] = maxSupplied["events"]
    /\ pos["directory"] = initPos["directory"]
    /\ pos["directory"] > maxSupplied["directory"]

IterationDone == pc \in {"read", "backoff"} /\ result.received

IterationOk == pc = "read" /\ outcome = "ok" /\ result.received

LastNotified == notified[Len(notified)]

\* C5 as stated: a response that contains the events stream has, when its
\* iteration is over, exactly one invocation of the dispatcher, with the
\* position of the response, made after process_replication completed.
C5_DispatchOncePerResponse ==
    /\ (IterationDone /\ "events" \in DOMAIN result.body) =>
          /\ iterNotifies = 1
          /\ LastNotified = result.body["events"].position
    /\ pc \in {"await", "apply", "notify"} => iterNotifies = 0

\* C5, amended: a response that contains the events stream and whose
\* process_replication completed has exactly one invocation of the dispatcher,
\* with the position of the response, which is then the store's position, and
\* made after process_replication completed; a response whose
\* process_replication raised has none.
C5_DispatchOncePerAppliedResponse ==
    /\ (IterationOk /\ "events" \in DOMAIN result.body) =>
          /\ iterNotifies = 1
          /\ LastNotified = result.body["events"].position
          /\ pos["events"] = result.body["events"].position
    /\ pc \in {"await", "apply", "notify", "backoff"} => iterNotifies = 0
    /\ pc = "notify" =>
          \A s \in DOMAIN result.body : pos[s] = result.body[s].position

\* The scenario: events at 0, a response with every row up to MaxPos; the
\* store is at MaxPos and the dispatcher was invoked once, with MaxPos.
C5_Witness ==
    /\ IterationOk
    /\ args["events"] = 0
    /\ "events" \in DOMAIN result.body
    /\ result.body["events"].position = MaxPos
    /\ Cardinality(result.body["events"].rows) = MaxPos
    /\ stream_positions["events"] = MaxPos
    /\ notified = <<MaxPos>>

\* C6: with a response that does not contain the events stream the dispatcher
\* is not invoked in that iteration, and every stream absent from a response
\* keeps the position it had when the request was sent.
C6_AbsentStreamUntouched ==
    result.received =>
        /\ \A s \in Streams \ DOMAIN result.body : pos[s] = args[s]
        /\ "events" \notin DOMAIN result.body => iterNotifies = 0

\* An iteration over whose response had the directory stream only.
C6_Witness ==
    /\ IterationOk
    /\ DOMAIN result.body = {"directory"}
    /\ pos["directory"] > args["directory"]
    /\ pos["events"] = args["events"]
    /\ Len(notified) > 0

\* A step of the dispatcher's own: a call in flight returns or fails.
DispatchEnds == pending' < pending

\* C7: the step that invokes the dispatcher takes the loop to the top of the
\* next iteration, never to the backoff; a call that returns or fails later
\* changes nothing of the loop; and whether or not the call ever ends, the
\* next request is sent.
C7_DispatchIsolation ==
    /\ [][pc = "notify" => pc' \in {"notify", "read"}]_vars
    /\ [][DispatchEnds => UNCHANGED loopVars]_vars
    /\ (pc = "notify") ~> (pc = "await")

\* A request sent after a successful iteration while one call of the
\* dispatcher has failed and another has still not ended.
C7_Witness ==
    /\ pc = "await"
    /\ outcome = "ok"
    /\ dispatchFailed
    /\ pending > 0
    /\ Len(notified) >= 2

\* C8: after process_replication raised the loop is in its backoff, the
\* dispatcher was not invoked for that response, and every stream has the
\* position it had when the request was sent.
C8_ApplyFailureLeavesPositions ==
    outcome = "apply_failed" /\ pc = "backoff" =>
        /\ iterNotifies = 0
        /\ \A s \in Streams : pos[s] = args[s]

\* A step that ends an iteration in a failure.
IterationFails ==
    \/ pc = "await" /\ pc' \notin {"await", "apply"}
    \/ pc = "apply" /\ pc' \notin {"apply", "notify"}

\* C9: a failed iteration starts a sleep; the sleep ends only when the whole
\* delay of 30 has passed, and with the loop back at its top; a request after
\* a failed iteration is sent only with the whole delay behind it; and with a
\* primary that is never reachable no position changes, the dispatcher is
\* never invoked, and requests go on being sent.
C9_Backoff ==
    /\ [][IterationFails => pc' = "backoff" /\ elapsed' = 0]_vars
    /\ [][pc = "backoff" /\ pc' # "backoff" =>
            elapsed = BackoffDelay /\ pc' = "read"]_vars
    /\ [][pc # "await" /\ pc' = "await" /\ outcome \in Failed =>
            elapsed = BackoffDelay]_vars
    /\ [](~primaryUp => pos = initPos /\ notified = <<>>)
    /\ [](~primaryUp => <>(pc = "await"))

\* The primary is unreachable, and a request is out again after a failed one
\* and the whole delay.
C9_Witness ==
    /\ ~primaryUp
    /\ pc = "await"
    /\ outcome = "request_failed"
    /\ elapsed = BackoffDelay
    /\ prevArgs = args

\* C10: the loop is always in one of its states, and from each of them a new
\* request is sent again and again.
C10_NoTerminalState ==
    /\ [](pc \in {"read", "await", "apply", "notify", "backoff"})
    /\ []<><<pc = "read" /\ pc' = "await">>_vars

\* A request out again after process_replication raised, with a call of the
\* dispatcher failed before.
C10_Witness ==
    /\ pc = "await"
    /\ outcome = "apply_failed"
    /\ dispatchFailed

\* ------------------------------------------- one batch delivered repeatedly

\* A response to the store's positions is at hand.
ReplayInit ==
    /\ pc = "apply"
    /\ initPos \in [Streams -> 0 .. MaxInit]
    /\ pos = initPos
    /\ rows = [s \in Streams |-> Ordered(1 .. initPos[s])]
    /\ primaryUp = TRUE
    /\ args = RequestArgs
    /\ prevArgs = NoArgs
    /\ \E body \in Responses(args) :
         /\ result = [received |-> TRUE, body |-> body]
         /\ maxSupplied = [s \in Streams |->
               IF s \in DOMAIN body THEN body[s].position ELSE 0]
    /\ elapsed = 0
    /\ pending = 0
    /\ dispatchFailed = FALSE
    /\ notified = <<>>
    /\ iterNotifies = 0
    /\ outcome = "none"
    /\ deliveries = 0
    /\ worker = WorkerRunning
    /\ servlet = ServletIdle

\* process_replication is given the response, once more, and returns.
Redeliver ==
    /\ pc = "apply"
    /\ deliveries < MaxDeliveries
    /\ deliveries' = deliveries + 1
    /\ pos' = ApplyStreams(DOMAIN result.body, result.body)[1]
    /\ rows' = ApplyStreams(DOMAIN result.body, result.body)[2]
    /\ outcome' = "ok"
    /\ UNCHANGED <<pc, primaryUp, args, result, elapsed, pending,
                   dispatchFailed, notified, iterNotifies, prevArgs, initPos,
                   maxSupplied, worker, servlet>>

\* process_replication is given the response, once more, and raises on one
\* of its streams.
RedeliverFail ==
    /\ pc = "apply"
    /\ deliveries < MaxDeliveries
    /\ deliveries' = deliveries + 1
    /\ \E f \in DOMAIN result.body :
         \E done \in SUBSET (DOMAIN result.body \ {f}) :
            /\ pos' = ApplyStreams(done, result.body)[1]
            /\ rows' = ApplyStreams(done, result.body)[2]
    /\ UNCHANGED <<pc, primaryUp, args, result, elapsed, pending,
                   dispatchFailed, notified, iterNotifies, outcome, prevArgs,
                   initPos, maxSupplied, worker, servlet>>

ReplayNext ==
    \/ Redeliver
    \/ RedeliverFail

ReplaySpec == ReplayInit /\ [][ReplayNext]_vars

NoDuplicateRows ==
    \A s \in Streams :
        \A i, j \in 1 .. Len(rows[s]) : i < j => rows[s][i] # rows[s][j]

\* C11: once process_replication has applied a batch, the same batch given to
\* it again changes neither a position nor the rows of the store; no delivery
\* moves a position back, and no row is in the store twice.
C11_IdempotentReapplication ==
    /\ [][outcome = "ok" /\ deliveries' > deliveries =>
            pos' = pos /\ rows' = rows]_vars
    /\ [][\A s \in Streams : pos'[s] >= pos[s]]_vars
    /\ []NoDuplicateRows

\* A batch with events rows applied, and delivered again.
C11_Witness ==
    /\ deliveries >= 2
    /\ outcome = "ok"
    /\ pos["events"] > initPos["events"]
    /\ rows["events"] = Ordered(1 .. MaxPos)
    /\ DOMAIN result.body = Streams

\* C12: a request that is out carries one entry per stream of the store, each
\* the store's position of that stream when the iteration started, and
\* timeout = 30000, on the first request, after a success and after a failure.
C12_RequestCarriesPositions ==
    pc = "await" =>
        /\ DOMAIN args = Streams \cup {"timeout"}
        /\ \A s \in Streams : args[s] = stream_positions[s]
        /\ args["timeout"] = 30000

\* A retry after a failed request, with an earlier iteration having advanced
\* the events stream.
C12_Witness ==
    /\ pc = "await"
    /\ outcome = "request_failed"
    /\ Len(notified) >= 1
    /\ args["events"] > initPos["events"]
    /\ args["directory"] = initPos["directory"]
    /\ args["timeout"] = LongPollTimeout

\* C17: while a request is out no response is held or being applied; a request
\* is sent only from the top of the loop; a response arrives only for the
\* request that is out and goes to process_replication at once; the store is
\* written only by process_replication applying the response received last,
\* and that call ends before anything else of the loop runs.
C17_StrictlySequential ==
    /\ [](pc = "await" => ~result.received)
    /\ [](pc \in {"apply", "notify"} => result.received)
    /\ [][pc # "await" /\ pc' = "await" => pc = "read"]_vars
    /\ [][result' # result /\ result'.received =>
            pc = "await" /\ pc' = "apply"]_vars
    /\ [][pos' # pos \/ rows' # rows =>
            /\ pc = "apply"
            /\ pc' \in {"notify", "backoff"}
            /\ result' = result
            /\ \A s \in Streams : pos'[s] # pos[s] =>
                  /\ s \in DOMAIN result.body
                  /\ pos'[s] = result.body[s].position]_vars

\* The second of two batches of the events stream applied, after the first.
C17_Witness ==
    /\ pc = "notify"
    /\ initPos["events"] = 0
    /\ args["events"] = 1
    /\ pos["events"] = 2
    /\ rows["events"] = <<1, 2>>

\* C18: the step that ends a successful iteration takes the loop to the top
\* of the next one with no sleep started; from there the only step of the loop
\* is to send the request; the time of a sleep passes only in the backoff; and
\* the backoff is entered only by an iteration that failed.
C18_NoDelayOnSuccess ==
    /\ [][pc = "notify" /\ pc' # "notify" =>
            pc' = "read" /\ outcome' = "ok" /\ elapsed' = elapsed]_vars
    /\ [][pc = "read" /\ pc' # "read" => pc' = "await"]_vars
    /\ [][elapsed' # elapsed => pc' = "backoff"]_vars
    /\ [][pc # "backoff" /\ pc' = "backoff" =>
            pc \in {"await", "apply"} /\ outcome' \in Failed]_vars

\* The request after a successful iteration that advanced the events stream,
\* with no sleep since the worker started.
C18_Witness ==
    /\ pc = "await"
    /\ outcome = "ok"
    /\ elapsed = 0
    /\ DOMAIN prevArgs = DOMAIN args
    /\ args["events"] > prevArgs["events"]
    /\ notified = <<args["events"]>>

\* ------------------------------------------------------------ start()

\* The loop's variables as replicate() finds them, the loop not yet started.
LoopIdle ==
    /\ pc = "idle"
    /\ initPos \in [Streams -> 0 .. MaxInit]
    /\ pos = initPos
    /\ rows = [s \in Streams |-> Ordered(1 .. initPos[s])]
    /\ primaryUp \in BOOLEAN
    /\ args = NoArgs
    /\ prevArgs = NoArgs
    /\ result = NoResult
    /\ elapsed = 0
    /\ pending = 0
    /\ dispatchFailed = FALSE
    /\ notified = <<>>
    /\ iterNotifies = 0
    /\ outcome = "none"
    /\ maxSupplied = [s \in Streams |-> 0]
    /\ deliveries = 0

loopState == <<pc, pos, rows, primaryUp, args, result, elapsed, pending,
               dispatchFailed, notified, iterNotifies, outcome, prevArgs,
               initPos, maxSupplied, deliveries>>

StartInit ==
    /\ LoopIdle
    /\ worker = [phase |-> "load_config", loaded_notify |-> FALSE,
                 notify_appservices |-> FALSE, server |-> FALSE,
                 datastore |-> FALSE, listening |-> FALSE,
                 scheduled |-> FALSE, reactor |-> FALSE, exit_code |-> 0]
    /\ servlet = ServletIdle

\* sys.exit(1)
Exit1(w) == [w EXCEPT !.phase = "exited", !.exit_code = 1]

\* An exception that nothing in start() catches ends the process.
Crash(w) == [w EXCEPT !.phase = "crashed", !.exit_code = 1]

\* config = HomeServerConfig.load_config(...); a ConfigError exits with 1.
LoadConfig ==
    /\ worker.phase = "load_config"
    /\ \/ worker' = Exit1(worker)
       \/ \E enabled \in BOOLEAN :
            worker' = [worker EXCEPT !.phase = "prepare",
                                     !.loaded_notify = enabled,
                                     !.notify_appservices = enabled]
    /\ UNCHANGED <<loopState, servlet>>

\* assert config.worker_app == ...; setup_logging; create_engine.
Prepare ==
    /\ worker.phase = "prepare"
    /\ \/ worker' = Crash(worker)
       \/ worker' = [worker EXCEPT !.phase = "check_notify"]
    /\ UNCHANGED <<loopState, servlet>>

\* The check left at a warning: start() goes on with appservices enabled.
CheckNotifyWarnOnly ==
    /\ worker.phase = "check_notify"
    /\ worker' = [worker EXCEPT !.phase = "construct",
                                !.notify_appservices = TRUE]
    /\ UNCHANGED <<loopState, servlet>>

\* if config.notify_appservices: ... sys.exit(1)
\* config.notify_appservices = True
CheckNotify ==
    /\ worker.phase = "check_notify"
    /\ worker' = IF worker.notify_appservices
                 THEN Exit1(worker)
                 ELSE [worker EXCEPT !.phase = "construct",
                                     !.notify_appservices = TRUE]
    /\ UNCHANGED <<loopState, servlet>>

\* ps = AppserviceServer(...)
Construct ==
    /\ worker.phase = "construct"
    /\ worker' = [worker EXCEPT !.phase = "setup", !.server = TRUE]
    /\ UNCHANGED <<loopState, servlet>>

\* ps.setup(): the datastore is built on a database connection, or raises.
Setup ==
    /\ worker.phase = "setup"
    /\ \/ worker' = Crash(worker)
       \/ worker' = [worker EXCEPT !.phase = "listen", !.datastore = TRUE]
    /\ UNCHANGED <<loopState, servlet>>

\* ps.start_listening(config.worker_listeners): the listeners are bound, or
\* reactor.listenTCP raises.
StartListening ==
    /\ worker.phase = "listen"
    /\ \/ worker' = Crash(worker)
       \/ worker' = [worker EXCEPT !.phase = "schedule", !.listening = TRUE]
    /\ UNCHANGED <<loopState, servlet>>

\* The callback called where it is defined: replicate() starts before the
\* reactor runs.
ScheduleCallNow ==
    /\ worker.phase = "schedule"
    /\ pc = "idle"
    /\ pc' = "read"
    /\ worker' = [worker EXCEPT !.phase = "run", !.scheduled = TRUE]
    /\ UNCHANGED <<pos, rows, primaryUp, args, result, elapsed, pending,
                   dispatchFailed, notified, iterNotifies, outcome, prevArgs,
                   initPos, maxSupplied, deliveries, servlet>>

\* reactor.callWhenRunning(start)
Schedule ==
    /\ worker.phase = "schedule"
    /\ worker' = [worker EXCEPT !.phase = "run", !.scheduled = TRUE]
    /\ UNCHANGED <<loopState, servlet>>

\* daemon.start() or run(): reactor.run()
Run ==
    /\ worker.phase = "run"
    /\ \E daemonize \in BOOLEAN :
         worker' = [worker EXCEPT !.phase = "reactor", !.reactor = TRUE]
    /\ UNCHANGED <<loopState, servlet>>

\* The running reactor calls start(): ps.replicate() enters its loop.
ReactorStart ==
    /\ worker.phase = "reactor"
    /\ worker.scheduled
    /\ worker.reactor
    /\ pc = "idle"
    /\ pc' = "read"
    /\ worker' = [worker EXCEPT !.phase = "running"]
    /\ UNCHANGED <<pos, rows, primaryUp, args, result, elapsed, pending,
                   dispatchFailed, notified, iterNotifies, outcome, prevArgs,
                   initPos, maxSupplied, deliveries, servlet>>

StartNext ==
    \/ LoadConfig
    \/ Prepare
    \/ CheckNotify
    \/ Construct
    \/ Setup
    \/ StartListening
    \/ Schedule
    \/ Run
    \/ ReactorStart
    \/ Next

StartSpec == StartInit /\ [][StartNext]_vars

Stopped == worker.phase \in {"exited", "crashed"}

\* C13: listeners are bound only with the datastore built; the loop of
\* replicate() has started (and so has read positions) only with the
\* datastore built, the listeners bound and the reactor running; and a
\* start() that ended in setup or in binding stays ended, its loop never
\* started and no request sent.
C13_StartupOrder ==
    /\ [](worker.listening => worker.datastore)
    /\ [](pc # "idle" =>
            worker.datastore /\ worker.listening /\ worker.reactor)
    /\ [](args # NoArgs => pc # "idle")
    /\ [](Stopped => pc = "idle" /\ args = NoArgs)
    /\ [][Stopped => worker' = worker]_vars

\* The first request of the loop is out, start() through.
C13_Witness ==
    /\ worker = WorkerRunning
    /\ pc = "await"
    /\ outcome = "none"
    /\ args = RequestArgs

\* C20: with notify_appservices loaded as enabled, no server is constructed,
\* no datastore built, no listener bound, the loop never starts and the
\* dispatcher is never invoked, and start() goes from the check to exit
\* status 1; a server is constructed only with the value loaded as disabled
\* and then set to true.
C20_RefusesWhileMainNotifies ==
    /\ [](worker.loaded_notify =>
            /\ ~worker.server /\ ~worker.datastore /\ ~worker.listening
            /\ ~worker.scheduled /\ ~worker.reactor
            /\ pc = "idle"
            /\ notified = <<>>)
    /\ [][worker.phase = "check_notify" /\ worker.loaded_notify
            /\ worker' # worker =>
               worker'.phase = "exited" /\ worker'.exit_code = 1]_vars
    /\ [](worker.server =>
            ~worker.loaded_notify /\ worker.notify_appservices)

\* start() has exited with 1 on a configuration with appservices enabled.
C20_Witness ==
    /\ worker.phase = "exited"
    /\ worker.exit_code = 1
    /\ worker.loaded_notify
    /\ worker.notify_appservices

\* ---------------------------------- RemoveHierarchyMemberRestServlet

Space == "space"

Rooms == {Space, "r1", "r2"}

\* The join rule of a room's current state; "none" is a room with no
\* join-rules event known locally, "unfetched" a room not looked at.
JoinRuleValues == {"public", "invite", "none"}

Unexplored == "Could not fully explore space or room."

\* str(e) of what update_membership raised
LeaveError == "User is not in the room."

NoFailures == [r \in {} |-> <<>>]

ServletInit ==
    /\ LoopIdle
    /\ initPos = [s \in Streams |-> 0]
    /\ primaryUp
    /\ worker = WorkerRunning
    /\ \E admin \in BOOLEAN, mine \in BOOLEAN, known \in BOOLEAN :
         servlet = [phase |-> "auth", is_admin |-> admin, is_mine |-> mine,
                    known |-> known, user_room_ids |-> {},
                    descendants |-> {}, inaccessible |-> {},
                    to_check |-> {},
                    join_rules |-> [r \in Rooms |-> "unfetched"],
                    rooms_to_leave |-> {}, to_attempt |-> {},
                    log |-> <<>>, left |-> <<>>, failures |-> NoFailures,
                    status |-> 0]

\* An exception out of on_DELETE: the request ends with an error status.
Reject(code) == [servlet EXCEPT !.phase = "error", !.status = code]

\* requester = await self._auth.get_user_by_req(request)
\* await assert_user_is_admin(self._auth, requester.user)
Authenticate ==
    /\ servlet.phase = "auth"
    /\ servlet' = IF servlet.is_admin
                  THEN [servlet EXCEPT !.phase = "resolve"]
                  ELSE Reject(403)
    /\ UNCHANGED <<loopState, worker>>

\* space_id, _ = await self.resolve_room_id(space_id)
ResolveRoom ==
    /\ servlet.phase = "resolve"
    /\ servlet' = IF servlet.known
                  THEN [servlet EXCEPT !.phase = "local"]
                  ELSE Reject(404)
    /\ UNCHANGED <<loopState, worker>>

\* The test of the target user left out.
CheckLocalSkipped ==
    /\ servlet.phase = "local"
    /\ servlet' = [servlet EXCEPT !.phase = "memberships"]
    /\ UNCHANGED <<loopState, worker>>

\* if not self._hs.is_mine(target_user): raise SynapseError(400, ...)
CheckLocal ==
    /\ servlet.phase = "local"
    /\ servlet' = IF servlet.is_mine
                  THEN [servlet EXCEPT !.phase = "memberships"]
                  ELSE Reject(400)
    /\ UNCHANGED <<loopState, worker>>

\* user_rooms = ...get_rooms_for_local_user_where_membership_is(
\*     user_id, [INVITE, JOIN, KNOCK])
FetchMemberships ==
    /\ servlet.phase = "memberships"
    /\ \E U \in SUBSET Rooms :
         servlet' = [servlet EXCEPT !.phase = "hierarchy",
                                    !.user_room_ids = U]
    /\ UNCHANGED <<loopState, worker>>

\* descendants, inaccessible_room_ids = ...get_room_descendants(space_id)
\* rooms_to_check = space_room_ids.intersection(user_room_ids)
\* rooms_to_leave = {space_id}
FetchHierarchy ==
    /\ servlet.phase = "hierarchy"
    /\ \E D \in SUBSET (Rooms \ {Space}) :
         \E I \in SUBSET ({Space} \cup D) :
           servlet' = [servlet EXCEPT
                         !.phase = "check",
                         !.descendants = D,
                         !.inaccessible = I,
                         !.to_check =
                             ({Space} \cup D) \cap servlet.user_room_ids,
                         !.rooms_to_leave = {Space}]
    /\ UNCHANGED <<loopState, worker>>

\* Only a join rule that is known and not public has the room left.
JoinRuleLeavesKnownOnly(rule) == rule \notin {"public", "none"}

\* if join_rules != JoinRules.PUBLIC
JoinRuleLeaves(rule) == rule # "public"

\* One pass of `for room_id in rooms_to_check`.
CheckRoom ==
    /\ servlet.phase = "check"
    /\ \E r \in servlet.to_check, rule \in JoinRuleValues :
         servlet' = [servlet EXCEPT
                       !.to_check = @ \ {r},
                       !.join_rules[r] = rule,
                       !.rooms_to_leave =
                           IF JoinRuleLeaves(rule) THEN @ \cup {r} ELSE @]
    /\ UNCHANGED <<loopState, worker>>

\* failures = {room_id: [...] for room_id in inaccessible_room_ids}
\* left_rooms = []
StartLeaving ==
    /\ servlet.phase = "check"
    /\ servlet.to_check = {}
    /\ servlet' = [servlet EXCEPT
                     !.phase = "leave",
                     !.failures =
                         [r \in servlet.inaccessible |-> <<Unexplored>>],
                     !.left = <<>>,
                     !.to_attempt = servlet.rooms_to_leave]
    /\ UNCHANGED <<loopState, worker>>

\* failures.get(room_id, []).append(str(e)): the list of a room that is a
\* key grows; for any other room the reason goes to a list nothing holds.
RecordFailure(failures, room_id, reason) ==
    IF room_id \in DOMAIN failures
    THEN [failures EXCEPT ![room_id] = Append(@, reason)]
    ELSE failures

\* The exception of update_membership let out of on_DELETE.
LeaveRoomAbort ==
    /\ servlet.phase = "leave"
    /\ \E r \in servlet.to_attempt, ok \in BOOLEAN :
         servlet' =
           IF ok
           THEN [servlet EXCEPT
                   !.to_attempt = @ \ {r},
                   !.log = Append(@, [room |-> r, outcome |-> "left"]),
                   !.left = Append(@, r)]
           ELSE [servlet EXCEPT
                   !.phase = "error",
                   !.status = 500,
                   !.log = Append(@, [room |-> r, outcome |-> "raised"])]
    /\ UNCHANGED <<loopState, worker>>

\* One pass of `for room_id in rooms_to_leave`: update_membership returns
\* or raises.
LeaveRoom ==
    /\ servlet.phase = "leave"
    /\ \E r \in servlet.to_attempt, ok \in BOOLEAN :
         servlet' =
           IF ok
           THEN [servlet EXCEPT
                   !.to_attempt = @ \ {r},
                   !.log = Append(@, [room |-> r, outcome |-> "left"]),
                   !.left = Append(@, r)]
           ELSE [servlet EXCEPT
                   !.to_attempt = @ \ {r},
                   !.log = Append(@, [room |-> r, outcome |-> "raised"]),
                   !.failures = RecordFailure(@, r, LeaveError)]
    /\ UNCHANGED <<loopState, worker>>

\* return 200, {"left": left_rooms, "failed": failures}
Respond ==
    /\ servlet.phase = "leave"
    /\ servlet.to_attempt = {}
    /\ servlet' = [servlet EXCEPT !.phase = "done", !.status = 200]
    /\ UNCHANGED <<loopState, worker>>

ServletNext ==
    \/ Authenticate
    \/ ResolveRoom
    \/ CheckLocal
    \/ FetchMemberships
    \/ FetchHierarchy
    \/ CheckRoom
    \/ StartLeaving
    \/ LeaveRoom
    \/ Respond

ServletSpec == ServletInit /\ [][ServletNext]_vars

\* The calls of update_membership made for a room, and how they ended.
Attempts(room_id) ==
    {i \in 1 .. Len(servlet.log) : servlet.log[i].room = room_id}

Attempted == {servlet.log[i].room : i \in 1 .. Len(servlet.log)}

Raised ==
    {servlet.log[i].room :
        i \in {j \in 1 .. Len(servlet.log) : servlet.log[j].outcome = "raised"}}

LeftRooms == {servlet.left[i] : i \in 1 .. Len(servlet.left)}

Reasons(room_id) ==
    {servlet.failures[room_id][i] : i \in 1 .. Len(servlet.failures[room_id])}

\* C14: in the response, every room for which update_membership raised is a
\* key of `failed` with the reason in its list, and every room for which it
\* returned is in `left`.
C14_FailureReporting ==
    servlet.phase = "done" =>
        \A r \in Attempted :
            IF r \in Raised
            THEN r \in DOMAIN servlet.failures /\ LeaveError \in Reasons(r)
            ELSE r \in LeftRooms

\* What the user's memberships, the hierarchy and the join rules say is to
\* be left.
NonPublicInSpace ==
    {r \in ({Space} \cup servlet.descendants) \cap servlet.user_room_ids :
        servlet.join_rules[r] \in {"invite", "none"}}

\* C15: once the join rules are checked the leave set is the space together
\* with the rooms of the hierarchy the user is in whose join rule is not
\* public, a missing join-rules event counting as not public; the rooms a
\* leave is attempted for are of that set, all of it at the response; and no
\* public room but the space is attempted.
C15_LeaveSet ==
    /\ servlet.phase \in {"leave", "done"} =>
          /\ servlet.rooms_to_leave = {Space} \cup NonPublicInSpace
          /\ Attempted \subseteq servlet.rooms_to_leave
    /\ servlet.phase = "done" => Attempted = {Space} \cup NonPublicInSpace
    /\ \A r \in Attempted \ {Space} : servlet.join_rules[r] # "public"

\* The user is not in the public space and is made to leave it, an unknown
\* room of the hierarchy is left and a public one is not.
C15_Witness ==
    /\ servlet.phase = "done"
    /\ Space \notin servlet.user_room_ids
    /\ servlet.join_rules["r1"] = "none"
    /\ servlet.join_rules["r2"] = "public"
    /\ Attempted = {Space, "r1"}

IsPrefix(s, t) == Len(s) <= Len(t) /\ SubSeq(t, 1, Len(s)) = s

\* C16: the loop of leaves ends only with no room of the leave set left to
\* attempt, whatever raised; at the response every room of the leave set has
\* been attempted exactly once and no other room at all, and the status is
\* 200; `left` only grows.
C16_PartialSuccess ==
    /\ [](servlet.phase = "done" =>
            /\ servlet.status = 200
            /\ \A r \in Rooms :
                 Cardinality(Attempts(r)) =
                     IF r \in servlet.rooms_to_leave THEN 1 ELSE 0)
    /\ [](\A r \in Rooms : Cardinality(Attempts(r)) <= 1)
    /\ [][servlet.phase = "leave" /\ servlet' # servlet =>
            /\ IsPrefix(servlet.left, servlet'.left)
            /\ servlet'.phase = IF servlet.to_attempt = {} THEN "done"
                                ELSE "leave"]_vars
    /\ [][servlet.phase = "done" => servlet' = servlet]_vars

\* A leave that raised, then one that went through, both in the response.
C16_Witness ==
    /\ servlet.phase = "done"
    /\ servlet.status = 200
    /\ \E i, j \in 1 .. Len(servlet.log) :
         /\ i < j
         /\ servlet.log[i].outcome = "raised"
         /\ servlet.log[j].outcome = "left"
         /\ servlet.log[j].room \in LeftRooms

\* C19: a request of a requester who is not an admin, or for a user who is
\* not local, never reaches the leaves: update_membership is not called, and
\* the request can only end in an error, with 400 when it is the test of the
\* user that fails.
C19_RejectsBeforeActing ==
    /\ [](~servlet.is_admin \/ ~servlet.is_mine =>
            /\ servlet.log = <<>>
            /\ servlet.left = <<>>
            /\ servlet.phase \in {"auth", "resolve", "local", "error"}
            /\ servlet.status # 200)
    /\ [][servlet.phase = "auth" /\ ~servlet.is_admin /\ servlet' # servlet =>
            servlet'.phase = "error"]_vars
    /\ [][servlet.phase = "local" /\ ~servlet.is_mine /\ servlet' # servlet =>
            servlet'.phase = "error" /\ servlet'.status = 400]_vars

\* An admin's request for a user of another homeserver has ended with 400.
C19_Witness ==
    /\ servlet.phase = "error"
    /\ servlet.status = 400
    /\ servlet.is_admin
    /\ servlet.known
    /\ ~servlet.is_mine
    /\ servlet.log = <<>>

====
